---- MODULE Spec2Model ----
(***************************************************************************)
(* A model of the image normalisation commands of                          *)
(* app/src-tauri/src/lib.rs: compress_image, get_image_hash and the data   *)
(* directory they write to.                                                *)
(***************************************************************************)
EXTENDS Integers, Sequences, FiniteSets, TLC

(***************************************************************************)
(* IEEE-754 binary32 arithmetic, as used by the geometry computation       *)
(* (lib.rs:60-61, 66-67).  A finite positive f32 is [m, e] and stands for  *)
(* m * 2^e with 2^23 <= m < 2^24; zero is [m |-> 0, e |-> 0].  Every       *)
(* operation rounds to nearest, ties to even, as the hardware does.  The   *)
(* exponents the model reaches are far from the subnormal and overflow     *)
(* ranges.                                                                 *)
(***************************************************************************)
RECURSIVE Pow2(_)
Pow2(n) == IF n = 0 THEN 1 ELSE 2 * Pow2(n - 1)

F32_HIDDEN == Pow2(23)      \* the implicit leading bit of a 24-bit significand
F32_LIMIT == Pow2(24)       \* first value that needs 25 bits
LIMB == Pow2(12)            \* half a significand, for 48-bit products

\* Round a significand m (with the dropped part compared to half) to nearest even.
RoundEven(m, dropped, half) ==
    IF dropped > half \/ (dropped = half /\ m % 2 = 1) THEN m + 1 ELSE m

\* A rounded significand may have carried out to 2^24.
Renorm(m, e) == IF m = F32_LIMIT THEN [m |-> F32_HIDDEN, e |-> e + 1] ELSE [m |-> m, e |-> e]

RECURSIVE NormUp(_, _)
NormUp(m, e) == IF m >= F32_HIDDEN THEN [m |-> m, e |-> e] ELSE NormUp(2 * m, e - 1)

RECURSIVE NormDown(_, _, _, _)
\* shift right until the significand fits, keeping the last bit out (guard) and
\* whether anything was lost below it (sticky)
NormDown(m, e, guard, sticky) ==
    IF m < F32_LIMIT
    THEN Renorm(IF guard = 1 /\ (sticky = 1 \/ m % 2 = 1) THEN m + 1 ELSE m, e)
    ELSE NormDown(m \div 2, e + 1, m % 2, IF guard = 1 \/ sticky = 1 THEN 1 ELSE 0)

\* `n as f32` for a u32 n (lib.rs:60, 61, 66, 67)
u32_as_f32(n) ==
    IF n = 0 THEN [m |-> 0, e |-> 0]
    ELSE IF n < F32_LIMIT THEN NormUp(n, 0)
    ELSE NormDown(n, 0, 0, 0)

RECURSIVE DivBits(_, _, _, _)
\* long division: q is the quotient so far, r the remainder, k the bits produced
DivBits(q, r, d, k) ==
    IF q >= F32_HIDDEN THEN [q |-> q, r |-> r, k |-> k]
    ELSE DivBits(2 * q + ((2 * r) \div d), (2 * r) % d, d, k + 1)

\* x / y on f32 (lib.rs:60, 66), y nonzero
f32_div(x, y) ==
    IF x.m = 0 THEN [m |-> 0, e |-> 0]
    ELSE LET s == DivBits(x.m \div y.m, x.m % y.m, y.m, 0)
             m == IF 2 * s.r > y.m \/ (2 * s.r = y.m /\ s.q % 2 = 1) THEN s.q + 1 ELSE s.q
         IN  Renorm(m, x.e - y.e - s.k)

\* x * y on f32 (lib.rs:61, 67): the exact 48-bit product in 12-bit limbs, rounded
f32_mul(x, y) ==
    IF x.m = 0 \/ y.m = 0 THEN [m |-> 0, e |-> 0]
    ELSE LET xh == x.m \div LIMB
             xl == x.m % LIMB
             yh == y.m \div LIMB
             yl == y.m % LIMB
             c0 == xl * yl
             c1 == xh * yl + xl * yh + (c0 \div LIMB)
             top == xh * yh + (c1 \div LIMB)              \* product div 2^24
             low == (c1 % LIMB) * LIMB + (c0 % LIMB)      \* product mod 2^24
         IN  IF top >= F32_HIDDEN
             THEN Renorm(RoundEven(top, low, F32_HIDDEN), x.e + y.e + 24)
             ELSE Renorm(RoundEven(2 * top + (low \div F32_HIDDEN),
                                   low % F32_HIDDEN, F32_HIDDEN \div 2),
                         x.e + y.e + 23)

RECURSIVE ShiftRight(_, _)
ShiftRight(m, n) == IF n = 0 \/ m = 0 THEN m ELSE ShiftRight(m \div 2, n - 1)

\* `x as u32` for a non-negative f32 (lib.rs:61, 67): truncation toward zero
f32_as_u32(x) ==
    IF x.e >= 0 THEN x.m * Pow2(x.e) ELSE ShiftRight(x.m, 0 - x.e)

(***************************************************************************)
(* Target geometry (lib.rs:56-70).                                         *)
(***************************************************************************)
MAX_SIZE == 1536

\* new_dimensions without the tests against MAX_SIZE: the long side always
\* becomes MAX_SIZE
new_dimensions_always_scaled(orig_width, orig_height) ==
    IF orig_width > orig_height
    THEN LET ratio == f32_div(u32_as_f32(MAX_SIZE), u32_as_f32(orig_width))
         IN  [branch |-> "width", w |-> MAX_SIZE,
              h |-> f32_as_u32(f32_mul(u32_as_f32(orig_height), ratio))]
    ELSE LET ratio == f32_div(u32_as_f32(MAX_SIZE), u32_as_f32(orig_height))
         IN  [branch |-> "height",
              w |-> f32_as_u32(f32_mul(u32_as_f32(orig_width), ratio)),
              h |-> MAX_SIZE]

new_dimensions(orig_width, orig_height) ==
    IF orig_width > orig_height
    THEN IF orig_width > MAX_SIZE
         THEN LET ratio == f32_div(u32_as_f32(MAX_SIZE), u32_as_f32(orig_width))
              IN  [branch |-> "width", w |-> MAX_SIZE,
                   h |-> f32_as_u32(f32_mul(u32_as_f32(orig_height), ratio))]
         ELSE [branch |-> "width", w |-> orig_width, h |-> orig_height]
    ELSE IF orig_height > MAX_SIZE
         THEN LET ratio == f32_div(u32_as_f32(MAX_SIZE), u32_as_f32(orig_height))
              IN  [branch |-> "height",
                   w |-> f32_as_u32(f32_mul(u32_as_f32(orig_width), ratio)),
                   h |-> MAX_SIZE]
         ELSE [branch |-> "height", w |-> orig_width, h |-> orig_height]

(***************************************************************************)
(* Paths.  A path is the sequence of its components; a file system node is *)
(* named by the path the kernel resolves it to.                            *)
(***************************************************************************)
RECURSIVE Canon(_)
\* the node a path names: "." names the directory itself, ".." its parent
Canon(path) ==
    IF path = <<>> THEN <<>>
    ELSE LET head == Canon(SubSeq(path, 1, Len(path) - 1))
             last == path[Len(path)]
         IN  IF last = "." THEN head
             ELSE IF last = ".." THEN SubSeq(head, 1, Len(head) - 1)
             ELSE Append(head, last)

DATA_BASE == <<"data">>                                \* dirs::data_local_dir()
APP_DIR == DATA_BASE \o <<"yorutsuke-v2">>
IMAGES_DIR == APP_DIR \o <<"images">>

IN_PHOTO == <<"in", "photo.png">>      \* a 3000 x 2000 colour photograph
IN_ALBUM == <<"in", "album">>          \* a directory
IN_GONE == <<"in", "gone.png">>        \* nothing there

\* format!("{}.jpg", image_id) joined to a directory (lib.rs:80); an image_id is
\* the sequence of the components its '/' characters split it into
JoinJpg(dir, image_id) ==
    dir \o SubSeq(image_id, 1, Len(image_id) - 1)
        \o <<image_id[Len(image_id)] \o ".jpg">>

ImageIds == {<<"a">>, <<"b">>, <<".", "a">>}
OUT_A == JoinJpg(IMAGES_DIR, <<"a">>)
OUT_B == JoinJpg(IMAGES_DIR, <<"b">>)
InputPaths == {IN_PHOTO, IN_ALBUM, IN_GONE, OUT_A}

Nodes == {DATA_BASE, APP_DIR, IMAGES_DIR, IN_PHOTO, IN_ALBUM, IN_GONE, OUT_A, OUT_B}

(***************************************************************************)
(* Files.  A node holds nothing, a directory, or a regular file with its   *)
(* bytes.  An image file is a signature, the two dimensions and the pixel  *)
(* data; pixel data is named by the number of lossy encodings it has been  *)
(* through (0: the original).                                              *)
(***************************************************************************)
Absent == [kind |-> "absent", data |-> <<>>]
Directory == [kind |-> "dir", data |-> <<>>]
RegularFile(bytes) == [kind |-> "file", data |-> bytes]

PNG_SIGNATURE == 137
JPEG_SOI == 255

image_bytes(sig, image) == <<sig, image.w, image.h, image.px>>

NoImage == [w |-> 0, h |-> 0, px |-> 0]

\* image::open's decoder (lib.rs:51): the bytes of a complete image, or a failure
CanDecode(bytes) ==
    Len(bytes) = 4 /\ bytes[1] \in {PNG_SIGNATURE, JPEG_SOI}
Decode(bytes) == [w |-> bytes[2], h |-> bytes[3], px |-> bytes[4]]

\* grayscale(), to_rgb8() and the JPEG encoder at quality 75 (lib.rs:84-96):
\* lossy, so the pixel data that comes out is one generation further
jpeg_bytes(image) ==
    image_bytes(JPEG_SOI, [w |-> image.w, h |-> image.h, px |-> image.px + 1])

RECURSIVE DigestFrom(_, _)
DigestFrom(acc, bytes) ==
    IF bytes = <<>> THEN acc
    ELSE DigestFrom((acc * 31 + bytes[1] + 1) % 65521, Tail(bytes))

\* format!("{:x}", md5::compute(data)) (lib.rs:101, 127)
md5_compute(bytes) == DigestFrom(1, bytes)

\* a write of `bytes` at offset 0 of a file that holds `old`
WriteAt0(old, bytes) ==
    IF Len(bytes) >= Len(old) THEN bytes
    ELSE bytes \o SubSeq(old, Len(bytes) + 1, Len(old))

Lookup(f, path) == f[Canon(path)]

\* Path::exists (lib.rs:41)
path_exists(f, path) == Lookup(f, path).kind # "absent"

(***************************************************************************)
(* compress_image (lib.rs:38-120), one operator per statement that reads   *)
(* or writes the file system.  Each takes the file system f and the call's *)
(* locals l and gives the two after the statement.                         *)
(***************************************************************************)
Workers == {"w1", "w2"}

NoResult == [success |-> FALSE, error |-> "none"]

Idle ==
    [pc |-> "idle", input_path |-> <<>>, image_id |-> <<>>, original_size |-> 0,
     rgb_image |-> NoImage, resampled |-> FALSE, output_path |-> <<>>,
     written |-> 0, md5_hash |-> 0, compressed_size |-> 0, result |-> NoResult]

\* the locals of a call that has just been made
Called(input_path, image_id) ==
    [Idle EXCEPT !.pc = "exists", !.input_path = input_path, !.image_id = image_id]

\* return Err(..): the locals are dropped
ReturnErr(f, l, message) ==
    [fs |-> f,
     l |-> [Idle EXCEPT !.pc = "done", !.input_path = l.input_path,
                        !.image_id = l.image_id, !.output_path = l.output_path,
                        !.written = l.written,
                        !.result = [success |-> FALSE, error |-> message]]]

Goto(f, l, pc) == [fs |-> f, l |-> [l EXCEPT !.pc = pc]]

\* lib.rs:40-43
check_exists(f, l) ==
    IF ~path_exists(f, l.input_path)
    THEN ReturnErr(f, l, "File not found")
    ELSE Goto(f, l, "metadata")

\* lib.rs:46-48; the length of a directory is what its file system says, here 0
read_original_size(f, l) ==
    IF Lookup(f, l.input_path).kind = "absent"
    THEN ReturnErr(f, l, "Failed to read metadata")
    ELSE Goto(f, [l EXCEPT !.original_size = Len(Lookup(f, l.input_path).data)], "open")

\* resize_exact when the dimensions changed (lib.rs:73-77)
resize(img) ==
    LET d == new_dimensions(img.w, img.h)
    IN  IF d.w # img.w \/ d.h # img.h
        THEN [image |-> [w |-> d.w, h |-> d.h, px |-> img.px], resampled |-> TRUE]
        ELSE [image |-> img, resampled |-> FALSE]

\* lib.rs:51-77: decode, compute the dimensions, resize
open_image(f, l) ==
    LET e == Lookup(f, l.input_path)
    IN  IF e.kind # "file" \/ ~CanDecode(e.data)
        THEN ReturnErr(f, l, "Failed to open image")
        ELSE LET r == resize(Decode(e.data))
             IN  Goto(f, [l EXCEPT !.rgb_image = r.image, !.resampled = r.resampled],
                      "data_dir")

\* fs::create_dir_all (lib.rs:18): every missing ancestor becomes a directory
create_dir_all(f, dir) ==
    [n \in DOMAIN f |->
        IF f[n].kind = "absent" /\ \E k \in 1..Len(dir) : n = SubSeq(dir, 1, k)
        THEN Directory ELSE f[n]]

\* get_data_dir with an output path that leaves the image_id out
get_data_dir_fixed_name(f, l) ==
    Goto(create_dir_all(f, IMAGES_DIR),
         [l EXCEPT !.output_path = JoinJpg(IMAGES_DIR, <<"a">>)], "create")

\* lib.rs:13-20, and the path the caller builds from it (lib.rs:80)
get_data_dir(f, l) ==
    Goto(create_dir_all(f, IMAGES_DIR),
         [l EXCEPT !.output_path = JoinJpg(IMAGES_DIR, l.image_id)], "create")

HasParentDir(f, path) ==
    LET n == Canon(path)
    IN  Len(n) > 1 /\ SubSeq(n, 1, Len(n) - 1) \in DOMAIN f
        /\ f[SubSeq(n, 1, Len(n) - 1)].kind = "dir"

\* create_file through a scratch file every call shares
create_file_shared(f, l) ==
    IF Lookup(f, l.output_path).kind = "dir" \/ ~HasParentDir(f, l.output_path)
    THEN ReturnErr(f, l, "Failed to create output file")
    ELSE Goto([f EXCEPT ![Canon(JoinJpg(IMAGES_DIR, <<"a">>))] = RegularFile(<<>>),
                        ![Canon(l.output_path)] = RegularFile(<<>>)], l, "encode")

\* create_file that opens the input path for writing
create_file_on_input(f, l) ==
    IF Lookup(f, l.output_path).kind = "dir" \/ ~HasParentDir(f, l.output_path)
    THEN ReturnErr(f, l, "Failed to create output file")
    ELSE Goto([f EXCEPT ![Canon(l.input_path)] = RegularFile(<<>>),
                        ![Canon(l.output_path)] = RegularFile(<<>>)], l, "encode")

\* fs::File::create (lib.rs:92-93): creates the file, or truncates the one there
create_file(f, l) ==
    IF Lookup(f, l.output_path).kind = "dir" \/ ~HasParentDir(f, l.output_path)
    THEN ReturnErr(f, l, "Failed to create output file")
    ELSE Goto([f EXCEPT ![Canon(l.output_path)] = RegularFile(<<>>)], l, "encode")

\* The encoder writes the headers (the signature and the dimensions), then the
\* scan data.  Either write can fail with an I/O error (a full disk, a removed
\* medium): `fault` is the number of bytes written when that happens, or the
\* length of the whole encoding when it does not.
WriteFaults(bytes) == {0, Len(bytes) - 1, Len(bytes)}

\* encoder.encode (lib.rs:94-96) writes through the open file from offset 0
encode_jpeg(f, l, fault) ==
    LET bytes == jpeg_bytes(l.rgb_image)
        n == IF fault < Len(bytes) THEN fault ELSE Len(bytes)
        node == Canon(l.output_path)
        f2 == [f EXCEPT ![node] = RegularFile(WriteAt0(f[node].data, SubSeq(bytes, 1, n)))]
    IN  IF n < Len(bytes)
        THEN ReturnErr(f2, [l EXCEPT !.written = n], "Failed to encode JPEG")
        ELSE Goto(f2, [l EXCEPT !.written = n], "read")

\* read_and_hash over the source file
read_and_hash_source(f, l) ==
    IF Lookup(f, l.output_path).kind # "file"
    THEN ReturnErr(f, l, "Failed to read JPEG file")
    ELSE Goto(f, [l EXCEPT !.md5_hash = md5_compute(Lookup(f, l.input_path).data)],
              "size")

\* lib.rs:99-101
read_and_hash(f, l) ==
    IF Lookup(f, l.output_path).kind # "file"
    THEN ReturnErr(f, l, "Failed to read JPEG file")
    ELSE Goto(f, [l EXCEPT !.md5_hash = md5_compute(Lookup(f, l.output_path).data)],
              "size")

\* read_compressed_size that takes the length from the bytes read for the hash,
\* one too many
read_compressed_size_off_by_one(f, l) ==
    IF Lookup(f, l.output_path).kind = "absent"
    THEN ReturnErr(f, l, "Failed to get file size")
    ELSE Goto(f, [l EXCEPT !.compressed_size = Len(Lookup(f, l.output_path).data) + 1],
              "return")

\* lib.rs:104-106
read_compressed_size(f, l) ==
    IF Lookup(f, l.output_path).kind = "absent"
    THEN ReturnErr(f, l, "Failed to get file size")
    ELSE Goto(f, [l EXCEPT !.compressed_size = Len(Lookup(f, l.output_path).data)],
              "return")

\* lib.rs:107-119
return_ok(f, l) ==
    [fs |-> f,
     l |-> [Idle EXCEPT !.pc = "done", !.input_path = l.input_path,
                        !.image_id = l.image_id, !.output_path = l.output_path,
                        !.written = l.written,
                        !.result = [success |-> TRUE, id |-> l.image_id,
                                    original_path |-> l.input_path,
                                    output_path |-> l.output_path,
                                    original_size |-> l.original_size,
                                    compressed_size |-> l.compressed_size,
                                    width |-> l.rgb_image.w,
                                    height |-> l.rgb_image.h,
                                    md5 |-> l.md5_hash]]]

\* get_image_hash (lib.rs:122-128)
get_image_hash(f, path) ==
    IF Lookup(f, path).kind # "file"
    THEN [ok |-> FALSE, md5 |-> 0]
    ELSE [ok |-> TRUE, md5 |-> md5_compute(Lookup(f, path).data)]

\* the statement a call is at, applied; `fault` is read by the encoder alone
Statement(f, l, fault) ==
    CASE l.pc = "exists" -> check_exists(f, l)
      [] l.pc = "metadata" -> read_original_size(f, l)
      [] l.pc = "open" -> open_image(f, l)
      [] l.pc = "data_dir" -> get_data_dir(f, l)
      [] l.pc = "create" -> create_file(f, l)
      [] l.pc = "encode" -> encode_jpeg(f, l, fault)
      [] l.pc = "read" -> read_and_hash(f, l)
      [] l.pc = "size" -> read_compressed_size(f, l)
      [] l.pc = "return" -> return_ok(f, l)
      [] OTHER -> [fs |-> f, l |-> l]

RECURSIVE RunToEnd(_, _, _)
RunToEnd(f, l, fault) ==
    IF l.pc = "done" THEN [fs |-> f, l |-> l]
    ELSE LET r == Statement(f, l, fault) IN RunToEnd(r.fs, r.l, fault)

\* compress_image(input_path, image_id) run from file system f with nothing else
\* running, the encoder's write failing as `fault` says
compress_image(f, input_path, image_id, fault) ==
    RunToEnd(f, Called(input_path, image_id), fault)

(***************************************************************************)
(* The state: the file system, each worker's call, and for each call the   *)
(* file system as it was when the call was made and when it returned, the  *)
(* other calls that were running or were made since it began.              *)
(***************************************************************************)
VARIABLES fs, loc, calls, at_call, at_return, others, geom

vars == <<fs, loc, calls, at_call, at_return, others, geom>>

MaxCalls == 2

PHOTO == [w |-> 3000, h |-> 2000, px |-> 0]

InitialFs ==
    [n \in Nodes |->
        CASE n = DATA_BASE -> Directory
          [] n = IN_ALBUM -> Directory
          [] n = IN_PHOTO -> RegularFile(image_bytes(PNG_SIGNATURE, PHOTO))
          [] OTHER -> Absent]

GeomIdle == [state |-> "none", orig_width |-> 0, orig_height |-> 0,
             branch |-> "none", width |-> 0, height |-> 0, resampled |-> FALSE]

Init ==
    /\ fs = InitialFs
    /\ loc = [p \in Workers |-> Idle]
    /\ at_call = [p \in Workers |-> InitialFs]
    /\ at_return = [p \in Workers |-> InitialFs]
    /\ calls = 0
    /\ others = [p \in Workers |-> {}]
    /\ geom = GeomIdle

InFlight(p) == loc[p].pc \notin {"idle", "done"}

\* what a call is to the calls around it: its id, the file it reads, the file it writes
Footprint(input_path, image_id) ==
    [id |-> image_id, source |-> Canon(input_path),
     output |-> Canon(JoinJpg(IMAGES_DIR, image_id))]

\* the front end invokes the command; the workers being interchangeable, the
\* first call of a run is w1's
Call(p, input_path, image_id) ==
    /\ ~InFlight(p)
    /\ calls < MaxCalls
    /\ calls = 0 => p = "w1"
    /\ calls' = calls + 1
    /\ loc' = [loc EXCEPT ![p] = Called(input_path, image_id)]
    /\ at_call' = [at_call EXCEPT ![p] = fs]
    /\ at_return' = [at_return EXCEPT ![p] = fs]
    /\ others' = [q \in Workers |->
                    IF q = p
                    THEN {Footprint(loc[r].input_path, loc[r].image_id) :
                             r \in {r \in Workers : InFlight(r)}}
                    ELSE IF loc[q].pc = "idle" THEN others[q]
                    ELSE others[q] \cup {Footprint(input_path, image_id)}]
    /\ UNCHANGED <<fs, geom>>

\* worker p's call takes the step r
Takes(p, r) ==
    /\ fs' = r.fs
    /\ loc' = [loc EXCEPT ![p] = r.l]
    /\ at_return' = IF r.l.pc = "done" THEN [at_return EXCEPT ![p] = r.fs] ELSE at_return
    /\ UNCHANGED <<calls, at_call, others, geom>>

CheckExists(p) ==
    loc[p].pc = "exists" /\ Takes(p, check_exists(fs, loc[p]))

ReadOriginalSize(p) ==
    loc[p].pc = "metadata" /\ Takes(p, read_original_size(fs, loc[p]))

OpenImage(p) ==
    loc[p].pc = "open" /\ Takes(p, open_image(fs, loc[p]))

GetDataDir(p) ==
    loc[p].pc = "data_dir" /\ Takes(p, get_data_dir(fs, loc[p]))

CreateFile(p) ==
    loc[p].pc = "create" /\ Takes(p, create_file(fs, loc[p]))

EncodeJpeg(p) ==
    /\ loc[p].pc = "encode"
    /\ \E fault \in WriteFaults(jpeg_bytes(loc[p].rgb_image)) :
          Takes(p, encode_jpeg(fs, loc[p], fault))

ReadAndHash(p) ==
    loc[p].pc = "read" /\ Takes(p, read_and_hash(fs, loc[p]))

ReadCompressedSize(p) ==
    loc[p].pc = "size" /\ Takes(p, read_compressed_size(fs, loc[p]))

ReturnOk(p) ==
    loc[p].pc = "return" /\ Takes(p, return_ok(fs, loc[p]))

Step(p) ==
    \/ CheckExists(p)
    \/ ReadOriginalSize(p)
    \/ OpenImage(p)
    \/ GetDataDir(p)
    \/ CreateFile(p)
    \/ EncodeJpeg(p)
    \/ ReadAndHash(p)
    \/ ReadCompressedSize(p)
    \/ ReturnOk(p)

\* calls from any number of threads or processes at once
Next ==
    \E p \in Workers :
        \/ \E input_path \in InputPaths, image_id \in ImageIds : Call(p, input_path, image_id)
        \/ Step(p)

Spec == Init /\ [][Next]_vars

\* calls one after the other, as the main thread dispatches a synchronous command
SeqCall(p, input_path, image_id) ==
    /\ \A q \in Workers : ~InFlight(q)
    /\ Call(p, input_path, image_id)

SeqNext ==
    \E p \in Workers :
        \/ \E input_path \in InputPaths, image_id \in ImageIds :
              SeqCall(p, input_path, image_id)
        \/ Step(p)

SeqSpec == Init /\ [][SeqNext]_vars
(***************************************************************************)
(* The geometry alone: the decoded dimensions are drawn from Sides, and    *)
(* the one action computes the target dimensions and resizes.              *)
(***************************************************************************)
MinSide == 1530
MaxSide == 1700
Sides == (MinSide..MaxSide) \cup {1, 600, 800, 1128, 2000, 2055, 3000}

GeomInit ==
    /\ fs = InitialFs
    /\ loc = [p \in Workers |-> Idle]
    /\ calls = 0
    /\ at_call = [p \in Workers |-> InitialFs]
    /\ at_return = [p \in Workers |-> InitialFs]
    /\ others = [p \in Workers |-> {}]
    /\ \E w \in Sides, h \in Sides :
          geom = [GeomIdle EXCEPT !.state = "decoded", !.orig_width = w, !.orig_height = h]

\* lib.rs:54-89 on a decoded image
ComputeGeometry ==
    /\ geom.state = "decoded"
    /\ LET r == resize([w |-> geom.orig_width, h |-> geom.orig_height, px |-> 0])
       IN  geom' = [geom EXCEPT !.state = "resized",
                                !.branch = new_dimensions(geom.orig_width,
                                                          geom.orig_height).branch,
                                !.width = r.image.w, !.height = r.image.h,
                                !.resampled = r.resampled]
    /\ UNCHANGED <<fs, loc, calls, at_call, at_return, others>>

GeomNext == ComputeGeometry

GeomSpec == GeomInit /\ [][GeomNext]_vars

Max(a, b) == IF a >= b THEN a ELSE b
Min(a, b) == IF a <= b THEN a ELSE b

(***************************************************************************)
(* Geometry properties, under GeomSpec.                                    *)
(***************************************************************************)
Resized == geom.state = "resized"
LongIn == Max(geom.orig_width, geom.orig_height)
ShortIn == Min(geom.orig_width, geom.orig_height)

\* C2: when the longer source side exceeds MAX_SIZE, the longer output side is
\* MAX_SIZE exactly and the shorter one is floor(short * MAX_SIZE / long).
C2_AspectPreservation ==
    (Resized /\ LongIn > MAX_SIZE) =>
        /\ Max(geom.width, geom.height) = MAX_SIZE
        /\ Min(geom.width, geom.height) = (ShortIn * MAX_SIZE) \div LongIn

\* C3: when neither source side exceeds MAX_SIZE, the target dimensions are the
\* source's, nothing is resampled, and the dimensions reported are the source's.
C3_NoUpscaling ==
    (Resized /\ LongIn <= MAX_SIZE) =>
        /\ new_dimensions(geom.orig_width, geom.orig_height).w = geom.orig_width
        /\ new_dimensions(geom.orig_width, geom.orig_height).h = geom.orig_height
        /\ ~geom.resampled
        /\ geom.width = geom.orig_width
        /\ geom.height = geom.orig_height

\* C3's case: an image with its longer side exactly MAX_SIZE has been through
\* the geometry step.
C3_Witness ==
    Resized /\ geom.orig_width = MAX_SIZE /\ geom.orig_height < MAX_SIZE

\* C10: a square source comes out square: MAX_SIZE x MAX_SIZE when its side
\* exceeds MAX_SIZE, unchanged otherwise.
C10_SquareStaysSquare ==
    (Resized /\ geom.orig_width = geom.orig_height) =>
        IF geom.orig_width > MAX_SIZE
        THEN geom.width = MAX_SIZE /\ geom.height = MAX_SIZE
        ELSE geom.width = geom.orig_width /\ geom.height = geom.orig_height

(***************************************************************************)
(* Properties of calls.  For worker p's last call: Mine(p) is its          *)
(* footprint, Before(p) and After(p) the file system when it was made and  *)
(* when it returned.                                                       *)
(***************************************************************************)
Done(p) == loc[p].pc = "done"
Succeeded(p) == Done(p) /\ loc[p].result.success
Failed(p) == Done(p) /\ ~loc[p].result.success
Mine(p) == Footprint(loc[p].input_path, loc[p].image_id)
Before(p) == at_call[p]
After(p) == at_return[p]

\* the encoding a call makes of the source it found, when it can decode it
Encoded(p) == jpeg_bytes(resize(Decode(Before(p)[Mine(p).source].data)).image)

\* C1: a call leaves no partial file: after a success the complete artifact is
\* at the output path, after a failure the output path holds what it held when
\* the call was made.
C1_NoPartialFile ==
    \A p \in Workers :
        /\ Succeeded(p) => /\ After(p)[Mine(p).output].kind = "file"
                           /\ CanDecode(After(p)[Mine(p).output].data)
        /\ Failed(p) => After(p)[Mine(p).output] = Before(p)[Mine(p).output]

\* C4: a call whose source path names no regular file (nothing, or a
\* directory) fails with "File not found".
C4_NotFoundUnlessRegularFile ==
    \A p \in Workers :
        (Done(p) /\ Before(p)[Mine(p).source].kind # "file") =>
            /\ ~loc[p].result.success
            /\ loc[p].result.error = "File not found"

\* C6: the md5 a successful call reports is the digest of the bytes its encoder
\* wrote, get_image_hash of the output path right after the return gives the
\* same, and compressed_size is the length of those bytes.
C6_HashOfWrittenBytes ==
    \A p \in Workers :
        Succeeded(p) =>
            /\ loc[p].result.md5 = md5_compute(Encoded(p))
            /\ get_image_hash(After(p), loc[p].result.output_path)
                  = [ok |-> TRUE, md5 |-> loc[p].result.md5]
            /\ loc[p].result.compressed_size = Len(Encoded(p))

\* C6's case: a call has succeeded on a file that an earlier call had written.
C6_Witness ==
    \E p \in Workers :
        /\ Succeeded(p)
        /\ Before(p)[Mine(p).output].kind = "file"
        /\ loc[p].result.md5 = md5_compute(After(p)[Mine(p).output].data)

\* C7 as claimed: the artifact of a successful call is, ever after, as it was
\* when that call returned.
C7_ArtifactNeverRewritten ==
    \A p \in Workers :
        Succeeded(p) =>
            Lookup(fs, loc[p].result.output_path)
                = Lookup(After(p), loc[p].result.output_path)

\* C7 amended: the artifact of a successful call is as it was when that call
\* returned, as long as no call made since writes the same output file.
C7_ArtifactKeptByOtherOutputs ==
    \A p \in Workers :
        (Succeeded(p) /\ \A o \in others[p] : o.output # Mine(p).output) =>
            Lookup(fs, loc[p].result.output_path)
                = Lookup(After(p), loc[p].result.output_path)

\* C7's case: after a call succeeded, a call with another output file has
\* written its own artifact.
C7_Witness ==
    \E p, q \in Workers :
        /\ Succeeded(p) /\ Succeeded(q)
        /\ Mine(q) \in others[p]
        /\ Mine(q).output # Mine(p).output
        /\ Before(q)[Mine(p).output].kind = "file"

\* the files that differ between two file systems
Changed(f, g) == {n \in Nodes : (f[n].kind = "file" \/ g[n].kind = "file") /\ f[n] # g[n]}

\* C9 as claimed, of the calls that succeed: such a call changes no file but
\* the one at its output path, and never the file at its source path.
C9_SourceAndOthersUntouched ==
    \A p \in Workers :
        Succeeded(p) => /\ Changed(Before(p), After(p)) \subseteq {Mine(p).output}
                        /\ Mine(p).source \notin Changed(Before(p), After(p))

\* C9 amended: a call changes no file but the one at its output path; the file
\* at its source path is changed only when it is that output file.
C9_OnlyOutputWritten ==
    \A p \in Workers :
        Done(p) => Changed(Before(p), After(p)) \subseteq {Mine(p).output}

\* C9's case: a call returned having written its artifact, its source another
\* file inside the data directory.
C9_Witness ==
    \E p \in Workers :
        /\ Succeeded(p)
        /\ Mine(p).source = Canon(OUT_A)
        /\ Mine(p).output = Canon(OUT_B)
        /\ Changed(Before(p), After(p)) = {Mine(p).output}

\* C5 as claimed: at every successful return, compressed_size is the length of
\* the file at the output path.
C5_SizeIsLengthAtReturn ==
    \A p \in Workers :
        Succeeded(p) =>
            loc[p].result.compressed_size
                = Len(Lookup(After(p), loc[p].result.output_path).data)

\* C5 amended: at every successful return of a call that no other call with
\* the same output file ran beside, compressed_size is the length of the file
\* at the output path.
C5_SizeIsLengthWhenAloneOnOutput ==
    \A p \in Workers :
        (Succeeded(p) /\ \A o \in others[p] : o.output # Mine(p).output) =>
            loc[p].result.compressed_size
                = Len(Lookup(After(p), loc[p].result.output_path).data)

\* C5's case: a call succeeded while a call with another output file was
\* writing.
C5_Witness ==
    \E p, q \in Workers :
        /\ p # q
        /\ Succeeded(p)
        /\ loc[q].pc = "read"
        /\ Mine(q) \in others[p]
        /\ Mine(q).output # Mine(p).output

\* what worker p's call gives when nothing else runs: the same arguments, the
\* file system it was made in, the same fate of the encoder's write
Alone(p) == compress_image(Before(p), loc[p].input_path, loc[p].image_id, loc[p].written)

SameAsAlone(p) ==
    LET alone == Alone(p)
    IN  /\ loc[p].result = alone.l.result
        /\ After(p)[Mine(p).output] = alone.fs[Mine(p).output]

\* C8 as claimed: a call that only calls with other image_ids run beside
\* returns what it returns alone and leaves the file it leaves alone.
C8_DistinctIdsIndependent ==
    \A p \in Workers :
        (Done(p) /\ \A o \in others[p] : o.id # Mine(p).id) => SameAsAlone(p)

\* C8 amended: a call returns what it returns alone and leaves the file it
\* leaves alone when no call beside it writes its output file or its source
\* file.
C8_DisjointFilesIndependent ==
    \A p \in Workers :
        (Done(p) /\ \A o \in others[p] :
                       o.output # Mine(p).output /\ o.output # Mine(p).source)
            => SameAsAlone(p)

\* C8's case: two calls with different output files ran at once and both
\* succeeded.
C8_Witness ==
    \E p, q \in Workers :
        /\ p # q
        /\ Succeeded(p) /\ Succeeded(q)
        /\ Mine(q) \in others[p] /\ Mine(p) \in others[q]
        /\ Mine(q).output # Mine(p).output
        /\ Mine(q).output # Mine(p).source

====
